---- MODULE Spec2Model ----
(***************************************************************************)
(* Rust rendering backend of gull (src/gull/src/codegen/rust.rs).          *)
(*                                                                         *)
(* Text is modelled byte for byte: a Rust String / &str is a sequence of   *)
(* one-character strings, so format!, push_str and push are sequence       *)
(* concatenation and two outputs are equal exactly when their bytes are.   *)
(* The import collector (RefCell<BTreeSet<&'static str>>) is the sorted,   *)
(* duplicate-free sequence a BTreeSet iterates in.                         *)
(***************************************************************************)
EXTENDS Integers, Sequences, FiniteSets

VARIABLES
    declarations,       \* the Declarations value handed to gen_declarations
    pc,                 \* position inside gen_declarations / the called function
    idx,                \* number of iterations of the `for declaration` loop done
    imports,            \* rc.imports
    declarations_code,  \* the local String of gen_declarations
    result,             \* the Result<String> returned, None before the return
    history,            \* earlier passes: <<[ir, out]>>, oldest first
    call,               \* a direct call of one rendering method: its arguments
    ret                 \* what that call returned, None before it returns

vars == <<declarations, pc, idx, imports, declarations_code, result, history, call, ret>>

None == [none |-> TRUE]

(***************************************************************************)
(* Bounds of the model.                                                    *)
(***************************************************************************)
MaxDecls == 3       \* declarations per Type IR
MaxPasses == 3      \* rendering passes in a row
MaxItems == 2       \* items of a tuple called directly
MaxFields == 2      \* fields of a struct called directly
MaxVariants == 2    \* variants of an enum called directly

SeqUpTo(S, n) == UNION {[1..k -> S] : k \in 0..n}

RECURSIVE Concat(_)
Concat(ss) == IF ss = <<>> THEN <<>> ELSE Head(ss) \o Concat(Tail(ss))

(***************************************************************************)
(* String literals of the source.                                          *)
(***************************************************************************)
IMPORT_BTREEMAP == <<"u","s","e"," ","s","t","d",":",":","c","o","l","l","e","c","t","i",
    "o","n","s",":",":","B","T","r","e","e","M","a","p",";">>
IMPORT_BTREESET == <<"u","s","e"," ","s","t","d",":",":","c","o","l","l","e","c","t","i",
    "o","n","s",":",":","B","T","r","e","e","S","e","t",";">>
DERIVE_LINE == <<"#","[","d","e","r","i","v","e","(","D","e","b","u","g",","," ","s","e",
    "r","d","e",":",":","S","e","r","i","a","l","i","z","e",","," ","s","e","r","d","e",":",
    ":","D","e","s","e","r","i","a","l","i","z","e",")","]","\n">>
LIT_pub_type == <<"p","u","b"," ","t","y","p","e"," ">>
LIT_pub_struct == <<"p","u","b"," ","s","t","r","u","c","t"," ">>
LIT_pub_enum == <<"p","u","b"," ","e","n","u","m"," ">>
LIT_nl4 == <<"\n"," "," "," "," ">>
LIT_BTreeMap_lt == <<"B","T","r","e","e","M","a","p","<">>
LIT_BTreeSet_lt == <<"B","T","r","e","e","S","e","t","<">>
LIT_Vec_lt == <<"V","e","c","<">>
LIT_Option_lt == <<"O","p","t","i","o","n","<">>
LIT_String == <<"S","t","r","i","n","g">>
LIT_bool == <<"b","o","o","l">>
LIT_i64 == <<"i","6","4">>
LIT_f64 == <<"f","6","4">>
LIT_slash2 == <<"/","/">>
LIT_slash3 == <<"/","/","/">>

(***************************************************************************)
(* Ord for str: byte-wise lexicographic, the order BTreeSet<&str> keeps.   *)
(***************************************************************************)
\* The printable ASCII characters in byte order, from 32 (space) on; the grave
\* accent (96), which no string literal can hold, is spelled out.
ASCII_PRINTABLE == <<" ","!","\"","#","$","%","&","'","(",")","*","+",",","-",".","/","0",
    "1","2","3","4","5","6","7","8","9",":",";","<","=",">","?","@","A","B","C","D","E","F",
    "G","H","I","J","K","L","M","N","O","P","Q","R","S","T","U","V","W","X","Y","Z","[",
    "\\","]","^","_","grave","a","b","c","d","e","f","g","h","i","j","k","l","m","n","o","p",
    "q","r","s","t","u","v","w","x","y","z","{","|","}","~">>

byte(c) == IF c = "\n" THEN 10
           ELSE 31 + (CHOOSE i \in 1..Len(ASCII_PRINTABLE) : ASCII_PRINTABLE[i] = c)

str_lt(a, b) ==
    \E k \in 1..(Len(a) + 1) :
        /\ k <= Len(b)
        /\ \A j \in 1..(k - 1) : a[j] = b[j]
        /\ \/ k = Len(a) + 1
           \/ byte(a[k]) < byte(b[k])

\* BTreeSet::insert that keeps a duplicate (a Vec push kept sorted).
BTreeSet_insert_dup(set, x) ==
    LET k == Cardinality({i \in 1..Len(set) : str_lt(set[i], x) \/ set[i] = x})
    IN  SubSeq(set, 1, k) \o <<x>> \o SubSeq(set, k + 1, Len(set))

\* BTreeSet::insert that keeps insertion order (an IndexSet).
BTreeSet_insert_unsorted(set, x) ==
    IF \E i \in 1..Len(set) : set[i] = x THEN set ELSE Append(set, x)

BTreeSet_insert(set, x) ==
    IF \E i \in 1..Len(set) : set[i] = x
    THEN set
    ELSE LET k == Cardinality({i \in 1..Len(set) : str_lt(set[i], x)})
         IN  SubSeq(set, 1, k) \o <<x>> \o SubSeq(set, k + 1, Len(set))

BTreeSet_new == <<>>

(***************************************************************************)
(* super::docs::format_docstring and CommentStyle.  Every line of the doc  *)
(* text gets the indentation, the comment marker and a space; the lines    *)
(* are joined by line breaks, with none at the end.  An empty doc is None. *)
(***************************************************************************)
repeat_space(n) == [i \in 1..n |-> " "]

comment_marker(style) == IF style = "DoubleSlash" THEN LIT_slash2 ELSE LIT_slash3

RECURSIVE lines(_)
lines(s) ==
    IF \A i \in 1..Len(s) : s[i] # "\n"
    THEN <<s>>
    ELSE LET k == CHOOSE i \in 1..Len(s) :
                      s[i] = "\n" /\ \A j \in 1..(i - 1) : s[j] # "\n"
         IN  <<SubSeq(s, 1, k - 1)>> \o lines(SubSeq(s, k + 1, Len(s)))

RECURSIVE join_lines(_)
join_lines(ls) ==
    IF Len(ls) = 1 THEN ls[1] ELSE ls[1] \o <<"\n">> \o join_lines(Tail(ls))

format_docstring(doc, style, indent) ==
    IF doc = <<>>
    THEN None
    ELSE LET ls == lines(doc)
         IN  [some |-> join_lines([i \in 1..Len(ls) |->
                  repeat_space(indent) \o comment_marker(style) \o <<" ">> \o ls[i]])]

(***************************************************************************)
(* RustCodegen.  Every method takes the collector contents as `self` and   *)
(* returns the text together with the collector contents it leaves.        *)
(***************************************************************************)
\* A collector that outlives the pass: new() hands out the contents left behind.
new_shared == [imports |-> imports]

new == [imports |-> BTreeSet_new]

add_import(self, import) == BTreeSet_insert(self, import)

\* Two primitives share one spelling.
gen_primitive_type_merged(ty) ==
    CASE ty = "String" -> LIT_String
      [] ty = "Tbool"  -> LIT_bool
      [] ty = "Ti64"   -> LIT_i64
      [] ty = "Tf64"   -> LIT_i64

gen_primitive_type(ty) ==
    CASE ty = "String" -> LIT_String
      [] ty = "Tbool"  -> LIT_bool
      [] ty = "Ti64"   -> LIT_i64
      [] ty = "Tf64"   -> LIT_f64

\* The item `match` of gen_tuple.
tuple_item(item) ==
    IF item.tag = "Reference" THEN item.v.name ELSE gen_primitive_type(item.v)

\* gen_tuple with the last index computed once, before the loop.
RECURSIVE gen_tuple_loop_hoisted(_, _, _, _)
gen_tuple_loop_hoisted(self, t, n, values) ==
    IF n >= Len(t.items)
    THEN [s |-> values, imports |-> self, overflow |-> Len(t.items) - 1 < 0]
    ELSE gen_tuple_loop_hoisted(self, t, n + 1,
             values \o tuple_item(t.items[n + 1])
                    \o (IF n # Len(t.items) - 1 THEN <<",", " ">> ELSE <<>>))

\* The `for (n, item)` loop of gen_tuple from iteration n on.  `overflow`
\* records whether `t.items.len() - 1` was evaluated on an empty list (a
\* panic in a debug build, a wrapped index in a release build): the
\* subtraction stands inside the loop body, so it is evaluated only when
\* there is an item.
RECURSIVE gen_tuple_loop(_, _, _, _)
gen_tuple_loop(self, t, n, values) ==
    IF n >= Len(t.items)
    THEN [s |-> values, imports |-> self, overflow |-> FALSE]
    ELSE LET is_last == n = Len(t.items) - 1
         IN  gen_tuple_loop(self, t, n + 1,
                 values \o tuple_item(t.items[n + 1])
                        \o (IF ~is_last THEN <<",", " ">> ELSE <<>>))

\* format!("({})", values)
gen_tuple_format(r) ==
    [s |-> <<"(">> \o r.s \o <<")">>, imports |-> r.imports, overflow |-> r.overflow]

gen_tuple(self, t) == gen_tuple_format(gen_tuple_loop(self, t, 0, <<>>))

\* The value `match` of gen_map.
map_value(m) ==
    IF m.value.tag = "TPrimitive" THEN gen_primitive_type(m.value.v) ELSE m.value.v.name

\* gen_map that registers nothing.
gen_map_no_import(self, m) ==
    [s |-> LIT_BTreeMap_lt \o gen_primitive_type(m.key) \o <<",", " ">> \o map_value(m) \o <<">">>,
     imports |-> self]

gen_map(self, m) ==
    [s |-> LIT_BTreeMap_lt \o gen_primitive_type(m.key) \o <<",", " ">> \o map_value(m) \o <<">">>,
     imports |-> add_import(self, IMPORT_BTREEMAP)]

gen_vec(self, v) ==
    [s |-> LIT_Vec_lt \o (IF v.tag = "TPrimitive" THEN gen_primitive_type(v.v) ELSE v.v.name)
                      \o <<">">>,
     imports |-> self]

gen_set(self, s) ==
    [s |-> LIT_BTreeSet_lt \o (IF s.tag = "TPrimitive" THEN gen_primitive_type(s.v) ELSE s.v.name)
                           \o <<">">>,
     imports |-> add_import(self, IMPORT_BTREESET)]

\* format!("Option<{}>", value)
gen_option_format(value) ==
    [s |-> LIT_Option_lt \o value.s \o <<">">>, imports |-> value.imports]

gen_option(self, o) ==
    gen_option_format(
        CASE o.tag = "Reference"  -> [s |-> o.v.name, imports |-> self]
          [] o.tag = "TPrimitive" -> [s |-> gen_primitive_type(o.v), imports |-> self]
          [] o.tag = "TMap"       -> gen_map(self, o.v)
          [] o.tag = "TVec"       -> gen_vec(self, o.v)
          [] o.tag = "TSet"       -> gen_set(self, o.v))

\* The field_type `match` of gen_struct.
gen_field_type(self, ft) ==
    CASE ft.tag = "Reference"  -> [s |-> ft.v.name, imports |-> self]
      [] ft.tag = "TMap"       -> gen_map(self, ft.v)
      [] ft.tag = "TOption"    -> gen_option(self, ft.v)
      [] ft.tag = "TPrimitive" -> [s |-> gen_primitive_type(ft.v), imports |-> self]
      [] ft.tag = "TTuple"     -> gen_tuple(self, ft.v)
      [] ft.tag = "TVec"       -> gen_vec(self, ft.v)

\* A field whose documentation comes before its attributes.
gen_struct_field_docs_first(field, indent_level, field_type) ==
    LET indent == repeat_space(indent_level)
        field_prefix == Concat([i \in 1..Len(field.config) |->
                            LIT_nl4 \o indent \o field.config[i].v])
        field_str == LIT_nl4 \o indent \o field.name \o <<":", " ">> \o field_type.s \o <<",">>
        doc == format_docstring(field.docs, "TripleSlash", indent_level + 4)
    IN  [s |-> (IF doc # None THEN <<"\n">> \o doc.some ELSE <<>>) \o field_prefix \o field_str,
         imports |-> field_type.imports]

\* The body of the `for field` loop of gen_struct, given the rendered field
\* type: the text the field adds to `fields`.
gen_struct_field(field, indent_level, field_type) ==
    LET indent == repeat_space(indent_level)
        field_prefix == Concat([i \in 1..Len(field.config) |->
                            LIT_nl4 \o indent \o field.config[i].v])
        field_str == LIT_nl4 \o indent \o field.name \o <<":", " ">> \o field_type.s \o <<",">>
        doc == format_docstring(field.docs, "TripleSlash", indent_level + 4)
    IN  [s |-> field_prefix \o (IF doc # None THEN <<"\n">> \o doc.some \o field_str
                                ELSE field_str),
         imports |-> field_type.imports]

\* fields.push_str / variants.push_str: the text grows, the collector is
\* the one the rendering left.
push_str(text, r) == [s |-> text \o r.s, imports |-> r.imports]

\* The `for field` loop of gen_struct from field k on; acc is `fields` so
\* far and the collector.
RECURSIVE gen_struct_loop(_, _, _, _)
gen_struct_loop(acc, s, indent_level, k) ==
    IF k > Len(s.fields)
    THEN acc
    ELSE gen_struct_loop(
             push_str(acc.s, gen_struct_field(s.fields[k], indent_level,
                                 gen_field_type(acc.imports, s.fields[k].field_type))),
             s, indent_level, k + 1)

\* format!("{{{}\n{}}}", fields, indent)
gen_struct_format(r, indent_level) ==
    [s |-> <<"{">> \o r.s \o <<"\n">> \o repeat_space(indent_level) \o <<"}">>,
     imports |-> r.imports]

gen_struct(self, s, indent_level) ==
    gen_struct_format(gen_struct_loop([s |-> <<>>, imports |-> self], s, indent_level, 1),
                      indent_level)

\* format!(" {}", self.gen_struct(s, 4))
variant_struct_format(r) == [s |-> <<" ">> \o r.s, imports |-> r.imports]

\* The variant_type `match` of gen_enum, with the payload struct at the
\* top-level indentation.
gen_variant_type_flat(self, vt) ==
    CASE vt.tag = "Empty"  -> [s |-> <<>>, imports |-> self]
      [] vt.tag = "Tuple"  -> gen_tuple(self, vt.v)
      [] vt.tag = "Struct" -> variant_struct_format(gen_struct(self, vt.v, 0))

\* The variant_type `match` of gen_enum.
gen_variant_type(self, vt) ==
    CASE vt.tag = "Empty"  -> [s |-> <<>>, imports |-> self]
      [] vt.tag = "Tuple"  -> gen_tuple(self, vt.v)
      [] vt.tag = "Struct" -> variant_struct_format(gen_struct(self, vt.v, 4))

\* The rest of the body of the `for variant` loop of gen_enum, given the
\* rendered payload: the text the variant adds to `variants`.
gen_enum_variant(variant, payload) ==
    LET variant_type == LIT_nl4 \o variant.name \o payload.s \o <<",">>
        doc == format_docstring(variant.docs, "TripleSlash", 4)
    IN  [s |-> IF doc # None THEN <<"\n">> \o doc.some \o variant_type ELSE variant_type,
         imports |-> payload.imports]

\* The `for variant` loop of gen_enum from variant k on.
RECURSIVE gen_enum_loop(_, _, _)
gen_enum_loop(acc, e, k) ==
    IF k > Len(e.variants)
    THEN acc
    ELSE gen_enum_loop(
             push_str(acc.s, gen_enum_variant(e.variants[k],
                                 gen_variant_type(acc.imports, e.variants[k].variant_type))),
             e, k + 1)

\* format!("{{{}\n}}", variants)
gen_enum_format(r) == [s |-> <<"{">> \o r.s \o <<"\n", "}">>, imports |-> r.imports]

gen_enum(self, e) == gen_enum_format(gen_enum_loop([s |-> <<>>, imports |-> self], e, 1))

\* The `for config` loop of gen_declaration: one line per attribute.
config_prefix(declaration) ==
    Concat([i \in 1..Len(declaration.config) |-> declaration.config[i].v \o <<"\n">>])

\* The derive line stands in only for a missing config list.
struct_prefix_default_only(prefix) == IF prefix = <<>> THEN DERIVE_LINE ELSE prefix

\* prefix.push_str("#[derive(...)]\n") of the TStruct arm.
struct_prefix(prefix) == prefix \o DERIVE_LINE

\* format!("pub type {} = {};", declaration.name, ...)
alias_format(name, prefix, r) ==
    [prefix |-> prefix, imports |-> r.imports,
     r |-> LIT_pub_type \o name \o <<" ", "=", " ">> \o r.s \o <<";">>]

\* format!("pub struct {} {}", ...) and format!("pub enum {} {}", ...)
block_format(keyword, name, prefix, r) ==
    [prefix |-> prefix, imports |-> r.imports, r |-> keyword \o name \o <<" ">> \o r.s]

\* The `match &declaration.value` of gen_declaration: the prefix, `r` and
\* the collector it leaves.
gen_declaration_value(self, declaration) ==
    CASE declaration.value.tag = "TPrimitive" ->
            alias_format(declaration.name, config_prefix(declaration),
                [s |-> gen_primitive_type(declaration.value.v), imports |-> self])
      [] declaration.value.tag = "TMap" ->
            alias_format(declaration.name, config_prefix(declaration),
                gen_map(self, declaration.value.v))
      [] declaration.value.tag = "TTuple" ->
            alias_format(declaration.name, config_prefix(declaration),
                gen_tuple(self, declaration.value.v))
      [] declaration.value.tag = "TStruct" ->
            block_format(LIT_pub_struct, declaration.name,
                struct_prefix(config_prefix(declaration)),
                gen_struct(self, declaration.value.v, 0))
      [] declaration.value.tag = "TEnum" ->
            block_format(LIT_pub_enum, declaration.name, config_prefix(declaration),
                gen_enum(self, declaration.value.v))
      [] declaration.value.tag = "Docs" ->
            [prefix |-> config_prefix(declaration), imports |-> self, r |-> <<>>]

\* Every declaration, Docs too, gets the doc-comment style.
comment_style_always_triple(value) == "TripleSlash"

comment_style(value) == IF value.tag = "Docs" THEN "DoubleSlash" ELSE "TripleSlash"

\* The end of gen_declaration: the documentation goes before `r`, the
\* prefix before both.
gen_declaration_format(declaration, arm) ==
    LET doc == format_docstring(declaration.docs, comment_style(declaration.value), 0)
        r == IF doc # None THEN doc.some \o <<"\n">> \o arm.r ELSE arm.r
    IN  [err |-> FALSE, s |-> arm.prefix \o r, imports |-> arm.imports]

gen_declaration(self, declaration) ==
    gen_declaration_format(declaration, gen_declaration_value(self, declaration))

\* The `for import` loop of gen_declarations: one line per collected import.
import_block(set) == Concat([i \in 1..Len(set) |-> set[i] \o <<"\n">>])

(***************************************************************************)
(* crate::definitions, as rust.rs takes the values apart.  A tagged value  *)
(* is [tag, v]; docs are a &str, empty when there are none.                *)
(***************************************************************************)
TPrimitive == {"String", "Tbool", "Ti64", "Tf64"}

Prim(p) == [tag |-> "TPrimitive", v |-> p]
Reference(name) == [tag |-> "Reference", v |-> [name |-> name]]
Tagged(tag, v) == [tag |-> tag, v |-> v]
RustAttribute(attr) == [tag |-> "RustAttribute", v |-> attr]
TMap(key, value) == [key |-> key, value |-> value]
TTuple(items) == [items |-> items]
TStruct(fields) == [fields |-> fields]
TEnum(variants) == [variants |-> variants]
StructField(name, docs, config, field_type) ==
    [name |-> name, docs |-> docs, config |-> config, field_type |-> field_type]
EnumVariant(name, docs, variant_type) ==
    [name |-> name, docs |-> docs, variant_type |-> variant_type]
TypeDeclaration(name, docs, config, value) ==
    [name |-> name, docs |-> docs, config |-> config, value |-> value]
Docs == [tag |-> "Docs"]
Empty == [tag |-> "Empty"]

(***************************************************************************)
(* Inputs.                                                                 *)
(***************************************************************************)
STR_UserId == <<"U","s","e","r","I","d">>
STR_Tags == <<"T","a","g","s">>
STR_Pair == <<"P","a","i","r">>
STR_Profile == <<"P","r","o","f","i","l","e">>
STR_Index == <<"I","n","d","e","x">>
STR_Plain == <<"P","l","a","i","n">>
STR_Circle == <<"C","i","r","c","l","e">>
STR_Empty == <<"E","m","p","t","y">>
STR_Boxed == <<"B","o","x","e","d">>
STR_Point == <<"P","o","i","n","t">>
STR_Unit == <<"U","n","i","t">>
STR_tags == <<"t","a","g","s">>
STR_x == <<"x">>
STR_m == <<"m">>
STR_o == <<"o">>
STR_p == <<"p">>
STR_t == <<"t">>
STR_v == <<"v">>
STR_A == <<"A">>
STR_Bb == <<"B","b">>
ATTR_a == <<"#","[","a","]">>
ATTR_b == <<"#","[","b","(","c",")","]">>
DOC_user == <<"A"," ","u","s","e","r",".">>
DOC_two == <<"o","n","e","\n","t","w","o">>
DOC_section == <<"S","e","c","t","i","o","n",":"," ","i","d","s">>
SHAPE_ENUM_TEXT == <<"{","\n"," "," "," "," ","C","i","r","c","l","e","(","f","6","4",")",
    ",","\n"," "," "," "," ","E","m","p","t","y",",","\n","}">>

TupleItems == {Prim(p) : p \in TPrimitive} \cup {Reference(STR_A), Reference(STR_Bb)}

MapStringBool == TMap("String", Prim("Tbool"))
MapIntRef == TMap("Ti64", Reference(STR_UserId))
PairTuple == TTuple(<<Prim("Tf64"), Reference(STR_A)>>)

F_x == StructField(STR_x, <<>>, <<>>, Reference(STR_A))
F_m == StructField(STR_m, DOC_user, <<RustAttribute(ATTR_a)>>, Tagged("TMap", MapStringBool))
F_tags == StructField(STR_tags, <<>>, <<RustAttribute(ATTR_a), RustAttribute(ATTR_b)>>,
              Tagged("TOption", Tagged("TSet", Prim("String"))))
F_p == StructField(STR_p, DOC_two, <<>>, Prim("Ti64"))
F_t == StructField(STR_t, <<>>, <<>>, Tagged("TTuple", PairTuple))
F_v == StructField(STR_v, DOC_user, <<>>, Tagged("TVec", Prim("String")))
F_o == StructField(STR_o, <<>>, <<>>, Tagged("TOption", Tagged("TMap", MapIntRef)))
F_ov == StructField(STR_v, <<>>, <<RustAttribute(ATTR_b)>>,
            Tagged("TOption", Tagged("TVec", Reference(STR_Bb))))
F_or == StructField(STR_x, <<>>, <<>>, Tagged("TOption", Reference(STR_A)))
F_op == StructField(STR_p, <<>>, <<>>, Tagged("TOption", Prim("Tbool")))
F_os == StructField(STR_o, DOC_user, <<>>, Tagged("TOption", Tagged("TSet", Reference(STR_A))))

SampleFields == {F_x, F_m, F_tags, F_p, F_t, F_v, F_o, F_ov, F_or, F_op, F_os}

V_Circle == EnumVariant(STR_Circle, <<>>, Tagged("Tuple", TTuple(<<Prim("Tf64")>>)))
V_Empty == EnumVariant(STR_Empty, <<>>, Empty)
V_Unit == EnumVariant(STR_Unit, DOC_two, Tagged("Tuple", TTuple(<<>>)))
V_Pair == EnumVariant(STR_Pair, DOC_user, Tagged("Tuple", PairTuple))
V_Point == EnumVariant(STR_Point, <<>>, Tagged("Struct", TStruct(<<F_x, F_p>>)))
V_Boxed == EnumVariant(STR_Boxed, DOC_user, Tagged("Struct", TStruct(<<F_m, F_tags>>)))
V_Plain == EnumVariant(STR_Plain, <<>>, Tagged("Struct", TStruct(<<>>)))

SampleVariants == {V_Circle, V_Empty, V_Unit, V_Pair, V_Point, V_Boxed, V_Plain}

ShapeEnum == TEnum(<<V_Circle, V_Empty>>)

\* The declarations a Type IR of the rendering passes is made of.
D_UserId == TypeDeclaration(STR_UserId, <<>>, <<>>, Prim("Ti64"))
D_Tags == TypeDeclaration(STR_Tags, DOC_user, <<>>, Tagged("TMap", MapIntRef))
D_Pair == TypeDeclaration(STR_Pair, <<>>, <<RustAttribute(ATTR_a)>>, Tagged("TTuple", PairTuple))
D_Profile == TypeDeclaration(STR_Profile, DOC_user, <<RustAttribute(ATTR_b)>>,
                 Tagged("TStruct", TStruct(<<F_tags>>)))
D_Index == TypeDeclaration(STR_Index, <<>>, <<>>, Tagged("TStruct", TStruct(<<F_x, F_o>>)))
D_Plain == TypeDeclaration(STR_Plain, <<>>, <<>>, Tagged("TStruct", TStruct(<<F_v, F_t>>)))
D_Boxed == TypeDeclaration(STR_Boxed, DOC_two, <<>>, Tagged("TEnum", TEnum(<<V_Boxed, V_Unit>>)))
D_Docs == TypeDeclaration(<<>>, DOC_section, <<>>, Docs)

SampleDeclarations ==
    {D_UserId, D_Tags, D_Pair, D_Profile, D_Index, D_Plain, D_Boxed, D_Docs}

TypeIRs == [declarations : SeqUpTo(SampleDeclarations, MaxDecls)]

\* The Type IRs rendered one after the other in a run of several passes.
PassIRs == {[declarations |-> ds] :
               ds \in {<<>>, <<D_UserId>>, <<D_Tags>>, <<D_Profile, D_Tags>>, <<D_Docs, D_Boxed>>}}

\* The collector contents a rendering method can be called with.
CollectorStates == {<<>>, <<IMPORT_BTREEMAP>>, <<IMPORT_BTREESET>>,
                    <<IMPORT_BTREEMAP, IMPORT_BTREESET>>}

CallValues ==
    {Prim("Ti64"), Prim("String"), Tagged("TMap", MapStringBool), Tagged("TTuple", PairTuple),
     Tagged("TTuple", TTuple(<<>>)), Tagged("TStruct", TStruct(<<F_tags>>)),
     Tagged("TStruct", TStruct(<<F_x, F_m>>)), Tagged("TStruct", TStruct(<<>>)),
     Tagged("TEnum", ShapeEnum), Tagged("TEnum", TEnum(<<V_Boxed>>)), Docs}

CallConfigs == {<<>>, <<RustAttribute(ATTR_a)>>, <<RustAttribute(ATTR_b), RustAttribute(ATTR_a)>>}

CallDeclarations ==
    {TypeDeclaration(STR_Profile, docs, config, value) :
        docs \in {<<>>, DOC_user, DOC_two}, config \in CallConfigs, value \in CallValues}

\* gen_struct is called with 0 (a declaration) and 4 (an enum variant) only.
IndentLevels == {0, 4}

\* A call: the method, its arguments and, as `self`, the collector contents
\* at the time of the call.
Calls ==
    {[fn |-> "gen_declaration", declaration |-> d, self |-> c] :
        d \in CallDeclarations, c \in CollectorStates}
    \cup {[fn |-> "gen_tuple", t |-> TTuple(items), self |-> c] :
             items \in SeqUpTo(TupleItems, MaxItems), c \in CollectorStates}
    \cup {[fn |-> "gen_struct", s |-> TStruct(fields), indent_level |-> l, self |-> c] :
             fields \in SeqUpTo(SampleFields, MaxFields), l \in IndentLevels,
             c \in CollectorStates}
    \cup {[fn |-> "gen_enum", e |-> TEnum(variants), self |-> c] :
             variants \in SeqUpTo(SampleVariants, MaxVariants), c \in CollectorStates}

(***************************************************************************)
(* gen_declarations, one action per step of its body.                      *)
(***************************************************************************)
\* let rc = RustCodegen::new(); let mut declarations_code = String::new();
Begin ==
    /\ pc = "start"
    /\ imports' = new.imports
    /\ declarations_code' = <<>>
    /\ idx' = 0
    /\ pc' = "loop"
    /\ UNCHANGED <<declarations, result, history, call, ret>>

\* What one iteration of `for declaration in &declarations.declarations`
\* does with the rendered declaration r; the `?` returns the error at once.
push_declaration(r) ==
    IF r.err
    THEN /\ result' = [err |-> TRUE]
         /\ pc' = "done"
         /\ UNCHANGED <<idx, imports, declarations_code>>
    ELSE /\ declarations_code' = declarations_code \o <<"\n">> \o r.s \o <<"\n">>
         /\ imports' = r.imports
         /\ idx' = idx + 1
         /\ UNCHANGED <<pc, result>>

RenderDeclaration ==
    /\ pc = "loop"
    /\ idx < Len(declarations.declarations)
    /\ push_declaration(gen_declaration(imports, declarations.declarations[idx + 1]))
    /\ UNCHANGED <<declarations, history, call, ret>>

\* The rest of the body, after the loop: the imports, a line break, the
\* declarations; Ok(result).
Flush ==
    /\ pc = "loop"
    /\ idx = Len(declarations.declarations)
    /\ result' = [ok |-> import_block(imports) \o <<"\n">> \o declarations_code]
    /\ pc' = "done"
    /\ UNCHANGED <<declarations, idx, imports, declarations_code, history, call, ret>>

\* The caller renders another Type IR: a new call of gen_declarations.
NextPass ==
    /\ pc = "done"
    /\ Len(history) + 1 < MaxPasses
    /\ history' = Append(history, [ir |-> declarations, out |-> result])
    /\ declarations' \in PassIRs
    /\ result' = None
    /\ pc' = "start"
    /\ UNCHANGED <<idx, imports, declarations_code, call, ret>>

(***************************************************************************)
(* One rendering method called directly on a collector in any state.       *)
(***************************************************************************)
CallGenDeclaration ==
    /\ pc = "call"
    /\ call.fn = "gen_declaration"
    /\ ret' = gen_declaration(imports, call.declaration)
    /\ imports' = ret'.imports
    /\ pc' = "returned"
    /\ UNCHANGED <<declarations, idx, declarations_code, result, history, call>>

CallGenTuple ==
    /\ pc = "call"
    /\ call.fn = "gen_tuple"
    /\ ret' = gen_tuple(imports, call.t)
    /\ imports' = ret'.imports
    /\ pc' = "returned"
    /\ UNCHANGED <<declarations, idx, declarations_code, result, history, call>>

CallGenStruct ==
    /\ pc = "call"
    /\ call.fn = "gen_struct"
    /\ ret' = gen_struct(imports, call.s, call.indent_level)
    /\ imports' = ret'.imports
    /\ pc' = "returned"
    /\ UNCHANGED <<declarations, idx, declarations_code, result, history, call>>

CallGenEnum ==
    /\ pc = "call"
    /\ call.fn = "gen_enum"
    /\ ret' = gen_enum(imports, call.e)
    /\ imports' = ret'.imports
    /\ pc' = "returned"
    /\ UNCHANGED <<declarations, idx, declarations_code, result, history, call>>

(***************************************************************************)
(* Specifications.                                                         *)
(***************************************************************************)
\* One rendering pass over any Type IR.
Init ==
    /\ declarations \in TypeIRs
    /\ pc = "start"
    /\ idx = 0
    /\ imports = <<>>
    /\ declarations_code = <<>>
    /\ result = None
    /\ history = <<>>
    /\ call = None
    /\ ret = None

Next == Begin \/ RenderDeclaration \/ Flush

Spec == Init /\ [][Next]_vars

\* Several rendering passes in a row.
InitPasses ==
    /\ declarations \in PassIRs
    /\ pc = "start"
    /\ idx = 0
    /\ imports = <<>>
    /\ declarations_code = <<>>
    /\ result = None
    /\ history = <<>>
    /\ call = None
    /\ ret = None

NextPasses == Begin \/ RenderDeclaration \/ Flush \/ NextPass

SpecPasses == InitPasses /\ [][NextPasses]_vars

\* One direct call of a rendering method.
InitCall ==
    /\ call \in Calls
    /\ imports = call.self
    /\ pc = "call"
    /\ ret = None
    /\ declarations = [declarations |-> <<>>]
    /\ idx = 0
    /\ declarations_code = <<>>
    /\ result = None
    /\ history = <<>>

NextCall == CallGenDeclaration \/ CallGenTuple \/ CallGenStruct \/ CallGenEnum

SpecCall == InitCall /\ [][NextCall]_vars

(***************************************************************************)
(* Reading a rendered text: its lines, and the import block, which is the  *)
(* lines before the first empty line.                                      *)
(***************************************************************************)
Min(S) == CHOOSE x \in S : \A y \in S : x <= y

Spaces(n) == [i \in 1..n |-> " "]

Range(seq) == {seq[i] : i \in 1..Len(seq)}

StartsAt(text, pat, i) ==
    /\ i >= 1
    /\ i + Len(pat) - 1 <= Len(text)
    /\ SubSeq(text, i, i + Len(pat) - 1) = pat

Occurrences(text, pat) == {i \in 1..Len(text) : StartsAt(text, pat, i)}

LineBreaks(text) == {i \in 1..Len(text) : text[i] = "\n"}

LineStarts(text) == {1} \cup {i + 1 : i \in LineBreaks(text)}

LineAt(text, i) ==
    SubSeq(text, i, Min({j \in LineBreaks(text) : j >= i} \cup {Len(text) + 1}) - 1)

\* Where the first empty line of the text starts.
FirstEmptyLine(text) == Min(LineStarts(text) \cap LineBreaks(text))

ImportLineStarts(text) == {i \in LineStarts(text) : i < FirstEmptyLine(text)}

ImportLines(text) == {LineAt(text, i) : i \in ImportLineStarts(text)}

CountImportLines(text, import) ==
    Cardinality({i \in ImportLineStarts(text) : LineAt(text, i) = import})

(***************************************************************************)
(* Reading a Type IR: where a Map or a Set shape can stand.                *)
(***************************************************************************)
FieldTypeHas(kind, ft) == ft.tag = kind \/ (ft.tag = "TOption" /\ ft.v.tag = kind)

StructHas(kind, s) == \E k \in 1..Len(s.fields) : FieldTypeHas(kind, s.fields[k].field_type)

DeclHas(kind, d) ==
    \/ d.value.tag = kind
    \/ d.value.tag = "TStruct" /\ StructHas(kind, d.value.v)
    \/ /\ d.value.tag = "TEnum"
       /\ \E k \in 1..Len(d.value.v.variants) :
              /\ d.value.v.variants[k].variant_type.tag = "Struct"
              /\ StructHas(kind, d.value.v.variants[k].variant_type.v)

DeclsWith(kind, ds) == {k \in 1..Len(ds) : DeclHas(kind, ds[k])}

RequiredImports(ds) ==
    (IF DeclsWith("TMap", ds) # {} THEN {IMPORT_BTREEMAP} ELSE {})
    \cup (IF DeclsWith("TSet", ds) # {} THEN {IMPORT_BTREESET} ELSE {})

Decls == declarations.declarations

\* The text of one declaration; it does not depend on the collector.
DeclText(d) == gen_declaration(<<>>, d).s

DocBlock(docs, style, indent) ==
    IF docs = <<>> THEN <<>> ELSE format_docstring(docs, style, indent).some \o <<"\n">>

ConfigLines(config) == Concat([i \in 1..Len(config) |-> config[i].v \o <<"\n">>])

(***************************************************************************)
(* C1  Import idempotence: registering a statement the collector already   *)
(* holds leaves it unchanged, and a Type IR in which N >= 1 declarations   *)
(* contain a Map (a Set) shape renders with the ordered-map (ordered-set)  *)
(* import exactly once in its import block.                                *)
(***************************************************************************)
C1_ImportIdempotence ==
    /\ \A k \in 1..Len(imports) : add_import(imports, imports[k]) = imports
    /\ pc = "done" =>
          /\ DeclsWith("TMap", Decls) # {} =>
                CountImportLines(result.ok, IMPORT_BTREEMAP) = 1
          /\ DeclsWith("TSet", Decls) # {} =>
                CountImportLines(result.ok, IMPORT_BTREESET) = 1

C1_Witness ==
    /\ pc = "done"
    /\ Cardinality(DeclsWith("TMap", Decls)) = 3
    /\ Cardinality(DeclsWith("TSet", Decls)) = 2
    /\ CountImportLines(result.ok, IMPORT_BTREEMAP) = 1
    /\ CountImportLines(result.ok, IMPORT_BTREESET) = 1

(***************************************************************************)
(* C2  Output contract of gen_declarations: the result is read only after  *)
(* the last declaration is rendered; it is the collected imports, one per  *)
(* line, without duplicates and in ascending byte order, then a line       *)
(* break, then every declaration in input order, each between two line     *)
(* breaks (so an empty line separates two declarations).                   *)
(***************************************************************************)
C2_OutputContract ==
    /\ pc # "done" => result = None
    /\ pc = "done" =>
          LET out == result.ok
              e == FirstEmptyLine(out)
          IN  /\ idx = Len(Decls)
              /\ \A i, j \in ImportLineStarts(out) :
                     i < j => str_lt(LineAt(out, i), LineAt(out, j))
              /\ ImportLines(out) = Range(imports)
              /\ SubSeq(out, e, Len(out)) =
                     <<"\n">> \o Concat([k \in 1..Len(Decls) |->
                                   <<"\n">> \o DeclText(Decls[k]) \o <<"\n">>])

\* The Set shape is met before the Map shape; the map import still comes first.
C2_Witness ==
    /\ pc = "done"
    /\ Len(Decls) = 2
    /\ DeclHas("TSet", Decls[1]) /\ ~DeclHas("TMap", Decls[1])
    /\ DeclHas("TMap", Decls[2])
    /\ StartsAt(result.ok, IMPORT_BTREEMAP \o <<"\n">> \o IMPORT_BTREESET \o <<"\n", "\n", "\n">>
                           \o DeclText(Decls[1]) \o <<"\n", "\n">> \o DeclText(Decls[2]), 1)

(***************************************************************************)
(* C3  Determinism across passes: every pass starts on an empty collector, *)
(* and a Type IR rendered in two passes, with other Type IRs rendered in   *)
(* between or not, gives the same result both times.                       *)
(***************************************************************************)
C3_Determinism ==
    /\ pc = "loop" /\ idx = 0 => imports = <<>>
    /\ \A i, j \in 1..Len(history) :
           history[i].ir = history[j].ir => history[i].out = history[j].out
    /\ pc = "done" =>
          \A i \in 1..Len(history) : history[i].ir = declarations => history[i].out = result

\* A, then B whose rendering registers an import, then A again.
C3_Witness ==
    /\ pc = "done"
    /\ Len(history) = 2
    /\ history[1].ir = declarations
    /\ history[2].ir # declarations
    /\ ImportLines(history[2].out.ok) # {}
    /\ ImportLines(result.ok) = {}
    /\ result = history[1].out

(***************************************************************************)
(* C4  The derive marker of a Struct declaration.  As claimed: it is       *)
(* emitted exactly once and immediately before 'pub struct <name>',        *)
(* whatever the config list and the docs are, and no other kind of         *)
(* declaration gets it.                                                    *)
(***************************************************************************)
C4_Original ==
    pc = "returned" /\ call.fn = "gen_declaration" =>
        LET d == call.declaration
            marks == Occurrences(ret.s, DERIVE_LINE)
        IN  IF d.value.tag = "TStruct"
            THEN /\ Cardinality(marks) = 1
                 /\ \A i \in marks :
                        StartsAt(ret.s, LIT_pub_struct \o d.name, i + Len(DERIVE_LINE))
            ELSE marks = {}

(***************************************************************************)
(* C4, amended: a Struct declaration gets the derive marker exactly once,  *)
(* immediately after its config attribute lines and before its doc comment *)
(* (when it has docs) and 'pub struct <name>'; the marker stands           *)
(* immediately before the header when the declaration has no docs.  No     *)
(* other kind of declaration gets it.                                      *)
(***************************************************************************)
C4_DeriveMarker ==
    pc = "returned" /\ call.fn = "gen_declaration" =>
        LET d == call.declaration
            marks == Occurrences(ret.s, DERIVE_LINE)
            config == ConfigLines(d.config)
            docs == DocBlock(d.docs, "TripleSlash", 0)
        IN  IF d.value.tag = "TStruct"
            THEN /\ marks = {Len(config) + 1}
                 /\ StartsAt(ret.s, config \o DERIVE_LINE \o docs \o LIT_pub_struct \o d.name, 1)
                 /\ Cardinality(Occurrences(ret.s, LIT_pub_struct)) = 1
            ELSE marks = {}

C4_Witness ==
    /\ pc = "returned"
    /\ call.fn = "gen_declaration"
    /\ call.declaration.value.tag = "TStruct"
    /\ Len(call.declaration.config) = 2
    /\ call.declaration.docs # <<>>
    /\ Occurrences(ret.s, DERIVE_LINE) = {Len(ConfigLines(call.declaration.config)) + 1}
    /\ ~StartsAt(ret.s, LIT_pub_struct,
                 Len(ConfigLines(call.declaration.config)) + 1 + Len(DERIVE_LINE))

(***************************************************************************)
(* C5  Documentation of a declaration.  As claimed: a Docs declaration     *)
(* renders only its docs as a plain-comment block (DoubleSlash,            *)
(* indentation 0) and no type statement; any other declaration has its     *)
(* docs, when present, as a doc comment (TripleSlash, indentation 0) and   *)
(* one line break immediately before the declaration text, and no comment  *)
(* line when it has none.                                                  *)
(***************************************************************************)
C5_Original ==
    pc = "returned" /\ call.fn = "gen_declaration" =>
        LET d == call.declaration
            arm == gen_declaration_value(call.self, d)
        IN  IF d.value.tag = "Docs"
            THEN ret.s = DocBlock(d.docs, "DoubleSlash", 0)
            ELSE /\ ret.s = arm.prefix \o DocBlock(d.docs, "TripleSlash", 0) \o arm.r
                 /\ d.docs = <<>> => \A i \in LineStarts(ret.s) : ~StartsAt(ret.s, <<"/">>, i)

(***************************************************************************)
(* C5, amended: a Docs declaration emits no type statement and does not    *)
(* use its name; it renders its config attribute lines, if it has any,     *)
(* and after them only its docs as a plain-comment block (DoubleSlash,     *)
(* indentation 0) with one line break.  The rest is as claimed.            *)
(***************************************************************************)
C5_Documentation ==
    pc = "returned" /\ call.fn = "gen_declaration" =>
        LET d == call.declaration
            arm == gen_declaration_value(call.self, d)
        IN  IF d.value.tag = "Docs"
            THEN /\ ret.s = ConfigLines(d.config) \o DocBlock(d.docs, "DoubleSlash", 0)
                 /\ Occurrences(ret.s, d.name) = {}
                 /\ Occurrences(ret.s, <<"p", "u", "b", " ">>) = {}
            ELSE /\ ret.s = arm.prefix \o DocBlock(d.docs, "TripleSlash", 0) \o arm.r
                 /\ StartsAt(arm.r, <<"p", "u", "b", " ">>, 1)
                 /\ d.docs = <<>> => \A i \in LineStarts(ret.s) : ~StartsAt(ret.s, <<"/">>, i)

C5_Witness ==
    /\ pc = "returned"
    /\ call.fn = "gen_declaration"
    /\ call.declaration.value.tag = "Docs"
    /\ call.declaration.config # <<>>
    /\ call.declaration.docs # <<>>
    /\ ret.s = ConfigLines(call.declaration.config)
               \o format_docstring(call.declaration.docs, "DoubleSlash", 0).some \o <<"\n">>

(***************************************************************************)
(* C6  Totality: each of the four primitives has its own fixed, non-empty  *)
(* spelling (String, bool, i64, f64); gen_declarations is never stuck      *)
(* before it returns (it is about to start, to render the next declaration *)
(* or to assemble the result), and what it returns is Ok, after the last   *)
(* declaration; for a Type IR without declarations that is one line break. *)
(***************************************************************************)
C6_Totality ==
    /\ gen_primitive_type("String") = <<"S", "t", "r", "i", "n", "g">>
    /\ gen_primitive_type("Tbool") = <<"b", "o", "o", "l">>
    /\ gen_primitive_type("Ti64") = <<"i", "6", "4">>
    /\ gen_primitive_type("Tf64") = <<"f", "6", "4">>
    /\ \A p, q \in TPrimitive : p # q => gen_primitive_type(p) # gen_primitive_type(q)
    /\ pc # "done" => pc = "start" \/ (pc = "loop" /\ idx <= Len(Decls))
    /\ pc = "done" =>
          /\ DOMAIN result = {"ok"}
          /\ idx = Len(Decls)
          /\ Decls = <<>> => result.ok = <<"\n">>

C6_Witness ==
    /\ pc = "done"
    /\ Decls = <<>>
    /\ result = [ok |-> <<"\n">>]

(***************************************************************************)
(* C7  gen_tuple renders k items as '(', the items in declared order with  *)
(* ', ' between two items (max(0, k-1) separators, none after the last)    *)
(* and ')'; an empty tuple renders as '()' and never evaluates `len - 1`   *)
(* on its empty list; the collector is left as it was.                     *)
(***************************************************************************)
ItemText(item) == IF item.tag = "TPrimitive" THEN gen_primitive_type(item.v) ELSE item.v.name

C7_Tuple ==
    pc = "returned" /\ call.fn = "gen_tuple" =>
        LET items == call.t.items
            k == Len(items)
        IN  /\ ret.s = <<"(">>
                       \o Concat([i \in 1..k |->
                              ItemText(items[i]) \o (IF i < k THEN <<",", " ">> ELSE <<>>)])
                       \o <<")">>
            /\ Cardinality(Occurrences(ret.s, <<",", " ">>)) = (IF k = 0 THEN 0 ELSE k - 1)
            /\ k = 0 => ret.s = <<"(", ")">>
            /\ ~ret.overflow
            /\ ret.imports = call.self
            /\ imports = call.self

C7_Witness ==
    /\ pc = "returned"
    /\ call.fn = "gen_tuple"
    /\ call.t.items = <<>>
    /\ call.self # <<>>
    /\ ret = [s |-> <<"(", ")">>, imports |-> call.self, overflow |-> FALSE]

(***************************************************************************)
(* C8  gen_struct at indentation L renders '{', then for every field in    *)
(* declared order its config attributes in declared order, each on a line  *)
(* of its own at L+4 spaces, its docs as a doc comment at indentation L+4  *)
(* when it has docs, and the line '<name>: <field type>,' at L+4 spaces,   *)
(* then '}' on a line of its own at L spaces.  A field without config and  *)
(* docs adds exactly one line.                                             *)
(***************************************************************************)
ExpectedField(f, L) ==
    Concat([i \in 1..Len(f.config) |-> <<"\n">> \o Spaces(L + 4) \o f.config[i].v])
    \o (IF f.docs = <<>> THEN <<>>
        ELSE <<"\n">> \o format_docstring(f.docs, "TripleSlash", L + 4).some)
    \o <<"\n">> \o Spaces(L + 4) \o f.name \o <<":", " ">>
    \o gen_field_type(<<>>, f.field_type).s \o <<",">>

ExpectedStruct(s, L) ==
    <<"{">> \o Concat([k \in 1..Len(s.fields) |-> ExpectedField(s.fields[k], L)])
    \o <<"\n">> \o Spaces(L) \o <<"}">>

C8_Struct ==
    pc = "returned" /\ call.fn = "gen_struct" =>
        LET fields == call.s.fields
            bare == \A k \in 1..Len(fields) : fields[k].config = <<>> /\ fields[k].docs = <<>>
        IN  /\ ret.s = ExpectedStruct(call.s, call.indent_level)
            /\ bare => Cardinality(LineBreaks(ret.s)) = Len(fields) + 1

C8_Witness ==
    /\ pc = "returned"
    /\ call.fn = "gen_struct"
    /\ call.indent_level = 4
    /\ Len(call.s.fields) = 2
    /\ Len(call.s.fields[1].config) = 2
    /\ call.s.fields[2].docs # <<>> /\ call.s.fields[2].config # <<>>
    /\ ret.s = ExpectedStruct(call.s, 4)

(***************************************************************************)
(* C9  gen_enum renders '{', then for every variant in declared order its  *)
(* docs as a doc comment at indentation 4 when it has docs and, at 4       *)
(* spaces, its name, its payload (nothing for Empty, the parenthesized     *)
(* items for a Tuple, a space and the struct block at indentation 4 for a  *)
(* Struct: fields at 8 spaces, closing brace at 4) and a comma, then '}'   *)
(* on a line of its own.  The enum of Circle(Float64) and Empty renders    *)
(* the two variant lines 'Circle(f64),' and 'Empty,'.                      *)
(***************************************************************************)
ExpectedPayload(vt) ==
    CASE vt.tag = "Empty"  -> <<>>
      [] vt.tag = "Tuple"  -> gen_tuple(<<>>, vt.v).s
      [] vt.tag = "Struct" -> <<" ">> \o ExpectedStruct(vt.v, 4)

ExpectedVariant(v) ==
    (IF v.docs = <<>> THEN <<>>
     ELSE <<"\n">> \o format_docstring(v.docs, "TripleSlash", 4).some)
    \o <<"\n">> \o Spaces(4) \o v.name \o ExpectedPayload(v.variant_type) \o <<",">>

C9_Enum ==
    pc = "returned" /\ call.fn = "gen_enum" =>
        /\ ret.s = <<"{">>
                   \o Concat([k \in 1..Len(call.e.variants) |-> ExpectedVariant(call.e.variants[k])])
                   \o <<"\n", "}">>
        /\ call.e = ShapeEnum => ret.s = SHAPE_ENUM_TEXT

C9_Witness ==
    /\ pc = "returned"
    /\ call.fn = "gen_enum"
    /\ Len(call.e.variants) = 2
    /\ call.e.variants[1].variant_type.tag = "Struct"
    /\ call.e.variants[1].variant_type.v.fields # <<>>
    /\ call.e.variants[1].docs # <<>>
    /\ call.e.variants[2] = V_Circle
    /\ Occurrences(ret.s, <<"\n">> \o Spaces(8)
                           \o call.e.variants[1].variant_type.v.fields[1].name \o <<":", " ">>) # {}
    /\ Occurrences(ret.s, <<"\n">> \o Spaces(4) \o <<"}", ",", "\n">> \o Spaces(4)
                           \o STR_Circle \o <<"(", "f", "6", "4", ")", ",", "\n", "}">>) # {}

(***************************************************************************)
(* C10  Import exactness: while the declarations are rendered the          *)
(* collector holds the ordered-map import exactly when a declaration       *)
(* rendered so far contains a Map shape (as an alias, a struct field, an   *)
(* Option payload or a field of a struct in an enum variant), the          *)
(* ordered-set import exactly when one contains a Set shape, and nothing   *)
(* else, so a declaration of Primitive, Reference, Vec, Tuple and Docs     *)
(* shapes leaves it alone; the import block of the result is exactly these *)
(* imports for the whole Type IR.                                          *)
(***************************************************************************)
C10_ImportExactness ==
    /\ pc \in {"loop", "done"} => Range(imports) = RequiredImports(SubSeq(Decls, 1, idx))
    /\ pc = "done" => ImportLines(result.ok) = RequiredImports(Decls)

\* Only the last declaration needs the map import, through a struct in an
\* enum variant.
C10_Witness ==
    /\ pc = "done"
    /\ Len(Decls) = 3
    /\ DeclsWith("TMap", Decls) = {3}
    /\ Decls[3].value.tag = "TEnum"
    /\ IMPORT_BTREEMAP \in ImportLines(result.ok)
====
